---------------------------- MODULE Spec2Model ----------------------------
(***************************************************************************)
(* Model of the access-token request pipeline of niso (src/access.go):     *)
(* HandleAccessRequest -> GenerateAccessRequest -> grant handler ->        *)
(* isAuthorizedCb -> FinishAccessRequest, run by concurrent requests       *)
(* against one Storage.  Every Storage call of FinishAccessRequest is one  *)
(* atomic step, so that requests interleave where the code calls out.      *)
(*                                                                         *)
(* Strings that the code takes apart (scopes, PKCE verifiers) are          *)
(* sequences: a scope is a sequence of one-character strings, a verifier   *)
(* or challenge a sequence of byte values.  Strings that the code only     *)
(* compares (codes, tokens, client ids, URIs) are TLA+ strings.            *)
(***************************************************************************)
EXTENDS Integers, Sequences, FiniteSets, TLC

VARIABLES
    Config,          \* s.Config: AllowGetAccessRequest, AllowedAccessTypes, ...
    now,             \* s.Now()
    authorizeStore,  \* Storage: code -> AuthorizeData
    refreshStore,    \* Storage: refresh token -> RefreshTokenData
    accessStore,     \* Storage: the AccessData records saved
    nextToken,       \* AccessTokenGenerator: number of token strings generated
    proc,            \* per request in flight: position and locals (ar, ret, rt)
    lastRequest,     \* the *http.Request of the latest HandleAccessRequest call
    response,        \* the latest result HandleAccessRequest returned
    numRequests,     \* HandleAccessRequest calls so far
    hist             \* history: what happened to each code / refresh token

vars == <<Config, now, authorizeStore, refreshStore, accessStore, nextToken,
          proc, lastRequest, response, numRequests, hist>>

---------------------------------------------------------------------------
(* Bounds *)

MaxRequests == 2

MaxTime == 1

MaxScopeLen == 3

Procs == {"p1", "p2"}

---------------------------------------------------------------------------
(* Grant types, src/access.go:16-22 *)

AUTHORIZATION_CODE == "authorization_code"

REFRESH_TOKEN == "refresh_token"

PASSWORD == "password"

CLIENT_CREDENTIALS == "client_credentials"

IMPLICIT == "__implicit"

(* Error codes (RFC 6749 5.2) used by src/access.go *)

E_INVALID_REQUEST == "invalid_request"

E_INVALID_CLIENT == "invalid_client"

E_INVALID_GRANT == "invalid_grant"

E_UNSUPPORTED_GRANT_TYPE == "unsupported_grant_type"

E_ACCESS_DENIED == "access_denied"

E_SERVER_ERROR == "server_error"

PKCE_PLAIN == "plain"

PKCE_S256 == "S256"

\* a nil pointer: no AuthorizeData, no RefreshTokenData, no AccessRequest
Nil == [nil |-> TRUE]

---------------------------------------------------------------------------
(* Strings as sequences *)

\* strings.Index(s, sep) for a one-character sep: 0 when absent
RECURSIVE IndexFrom(_, _, _)
IndexFrom(s, sep, i) ==
    IF i > Len(s) THEN 0
    ELSE IF s[i] = sep THEN i
    ELSE IndexFrom(s, sep, i + 1)

\* strings.Split(s, sep): the substrings between the separators, "" included
RECURSIVE Split(_, _)
Split(s, sep) ==
    LET i == IndexFrom(s, sep, 1) IN
    IF i = 0 THEN <<s>>
    ELSE <<SubSeq(s, 1, i - 1)>> \o Split(SubSeq(s, i + 1, Len(s)), sep)

\* the set of non-empty tokens of a comma-delimited scope string: its maximal
\* runs of characters other than ","
ScopeSet(scope) ==
    {SubSeq(scope, i, j) : <<i, j>> \in
        {ij \in (1..Len(scope)) \X (1..Len(scope)) :
            /\ ij[1] <= ij[2]
            /\ \A k \in ij[1]..ij[2] : scope[k] # ","
            /\ ij[1] = 1 \/ scope[ij[1] - 1] = ","
            /\ ij[2] = Len(scope) \/ scope[ij[2] + 1] = ","}}

\* extraScopes without the skip of empty tokens at src/access.go:264-266
extraScopesCountsEmpty(accessScopes, refreshScopes) ==
    LET accessScopesLists == Split(accessScopes, ",")
        refreshScopesLists == Split(refreshScopes, ",")
        accessMaps == {accessScopesLists[i] : i \in
                          {j \in 1..Len(accessScopesLists) : accessScopesLists[j] # <<>>}}
    IN \E i \in 1..Len(refreshScopesLists) : refreshScopesLists[i] \notin accessMaps

\* extraScopes finding no requested scope to be extra
extraScopesNoneExtra(accessScopes, refreshScopes) == FALSE

\* extraScopes, src/access.go:250-272
extraScopes(accessScopes, refreshScopes) ==
    LET accessScopesLists == Split(accessScopes, ",")
        refreshScopesLists == Split(refreshScopes, ",")
        accessMaps == {accessScopesLists[i] : i \in
                          {j \in 1..Len(accessScopesLists) : accessScopesLists[j] # <<>>}}
    IN \E i \in 1..Len(refreshScopesLists) :
          /\ refreshScopesLists[i] # <<>>
          /\ refreshScopesLists[i] \notin accessMaps

---------------------------------------------------------------------------
(* crypto/sha256 and encoding/base64 as used at src/access.go:233-234.     *)
(* A 32-bit word is <<high 16 bits, low 16 bits>>.                         *)

\* SHA-256 round constants and initial hash value (FIPS 180-4), as <<high 16 bits, low 16 bits>>
SHA256_K ==
    <<
        <<17034, 12184>>, <<28983, 17553>>, <<46528, 64463>>, <<59829, 56229>>,
        <<14678, 49755>>, <<23025, 4593>>, <<37439, 33444>>, <<43804, 24277>>,
        <<55303, 43672>>, <<4739, 23297>>, <<9265, 34238>>, <<21772, 32195>>,
        <<29374, 23924>>, <<32990, 45566>>, <<39900, 1703>>, <<49563, 61812>>,
        <<58523, 27073>>, <<61374, 18310>>, <<4033, 40390>>, <<9228, 41420>>,
        <<11753, 11375>>, <<19060, 33962>>, <<23728, 43484>>, <<30457, 35034>>,
        <<38974, 20818>>, <<43057, 50797>>, <<45059, 10184>>, <<48985, 32711>>,
        <<50912, 3059>>, <<54695, 37191>>, <<1738, 25425>>, <<5161, 10599>>,
        <<10167, 2693>>, <<11803, 8504>>, <<19756, 28156>>, <<21304, 3347>>,
        <<25866, 29524>>, <<30314, 2747>>, <<33218, 51502>>, <<37490, 11397>>,
        <<41663, 59553>>, <<43034, 26187>>, <<49739, 35696>>, <<51052, 20899>>,
        <<53650, 59417>>, <<54937, 1572>>, <<62478, 13701>>, <<4202, 41072>>,
        <<6564, 49430>>, <<7735, 27656>>, <<10056, 30540>>, <<13488, 48309>>,
        <<14620, 3251>>, <<20184, 43594>>, <<23452, 51791>>, <<26670, 28659>>,
        <<29839, 33518>>, <<30885, 25455>>, <<33992, 30740>>, <<36039, 520>>,
        <<37054, 65530>>, <<42064, 27883>>, <<48889, 41975>>, <<50801, 30962>>
    >>

SHA256_H0 ==
    <<
        <<27145, 58983>>, <<47975, 44677>>, <<15470, 62322>>, <<42319, 62778>>,
        <<20750, 21119>>, <<39685, 26764>>, <<8067, 55723>>, <<23520, 52505>>
    >>

\* the base64url alphabet "A-Za-z0-9-_" as byte values
Base64URLAlphabet ==
    <<65, 66, 67, 68, 69, 70, 71, 72, 73, 74, 75, 76, 77, 78, 79, 80, 81, 82, 83, 84, 85, 86, 87, 88, 89, 90, 97, 98, 99, 100, 101, 102, 103, 104, 105, 106, 107, 108, 109, 110, 111, 112, 113, 114, 115, 116, 117, 118, 119, 120, 121, 122, 48, 49, 50, 51, 52, 53, 54, 55, 56, 57, 45, 95>>

\* "dBjftJeZ4CVP-mB92K27uhbUJU1p1r_wW1gFWFOEjXk" (RFC 7636 appendix B)
RFCVerifier ==
    <<100, 66, 106, 102, 116, 74, 101, 90, 52, 67, 86, 80, 45, 109, 66, 57, 50, 75, 50, 55, 117, 104, 98, 85, 74, 85, 49, 112, 49, 114, 95, 119, 87, 49, 103, 70, 87, 70, 79, 69, 106, 88, 107>>

\* "E9Melhoa2OwvFrEMTJguCHaoeK1t8URWbuGJSstw-cM"
RFCChallenge ==
    <<69, 57, 77, 101, 108, 104, 111, 97, 50, 79, 119, 118, 70, 114, 69, 77, 84, 74, 103, 117, 67, 72, 97, 111, 101, 75, 49, 116, 56, 85, 82, 87, 98, 117, 71, 74, 83, 115, 116, 119, 45, 99, 77>>

RECURSIVE XorBits(_, _)
XorBits(x, y) ==
    IF x = 0 THEN y
    ELSE IF y = 0 THEN x
    ELSE (((x % 2) + (y % 2)) % 2) + (2 * XorBits(x \div 2, y \div 2))

RECURSIVE AndBits(_, _)
AndBits(x, y) ==
    IF x = 0 \/ y = 0 THEN 0
    ELSE ((x % 2) * (y % 2)) + (2 * AndBits(x \div 2, y \div 2))

\* the two operations on 4 bits, tabulated
Xor4 == [x \in 0..15 |-> [y \in 0..15 |-> XorBits(x, y)]]

And4 == [x \in 0..15 |-> [y \in 0..15 |-> AndBits(x, y)]]

Xor16(x, y) ==
    Xor4[x % 16][y % 16] + (16 * Xor4[(x \div 16) % 16][(y \div 16) % 16])
    + (256 * Xor4[(x \div 256) % 16][(y \div 256) % 16])
    + (4096 * Xor4[x \div 4096][y \div 4096])

And16(x, y) ==
    And4[x % 16][y % 16] + (16 * And4[(x \div 16) % 16][(y \div 16) % 16])
    + (256 * And4[(x \div 256) % 16][(y \div 256) % 16])
    + (4096 * And4[x \div 4096][y \div 4096])

Xor32(a, b) == <<Xor16(a[1], b[1]), Xor16(a[2], b[2])>>

And32(a, b) == <<And16(a[1], b[1]), And16(a[2], b[2])>>

Not32(a) == <<65535 - a[1], 65535 - a[2]>>

Add32(a, b) ==
    LET lo == a[2] + b[2]
    IN <<(a[1] + b[1] + (lo \div 65536)) % 65536, lo % 65536>>

RECURSIVE Rotr32(_, _)
Rotr32(a, n) ==
    IF n = 0 THEN a
    ELSE IF n >= 16 THEN Rotr32(<<a[2], a[1]>>, n - 16)
    ELSE <<(a[1] \div (2^n)) + ((a[2] % (2^n)) * (2^(16 - n))),
           (a[2] \div (2^n)) + ((a[1] % (2^n)) * (2^(16 - n)))>>

Shr32(a, n) ==
    IF n >= 16 THEN <<0, a[1] \div (2^(n - 16))>>
    ELSE <<a[1] \div (2^n), (a[2] \div (2^n)) + ((a[1] % (2^n)) * (2^(16 - n)))>>

\* the message padded to whole 64-byte blocks: 0x80, zeros, the bit length in 64 bits
RECURSIVE Zeros(_)
Zeros(n) == IF n = 0 THEN <<>> ELSE <<0>> \o Zeros(n - 1)

SHA256Pad(msg) ==
    LET bits == 8 * Len(msg)
        k == (119 - (Len(msg) % 64)) % 64
    IN msg \o <<128>> \o Zeros(k) \o Zeros(4) \o
       <<(bits \div 16777216) % 256, (bits \div 65536) % 256,
         (bits \div 256) % 256, bits % 256>>

\* the message schedule W[1..64] of one block
RECURSIVE SHA256Schedule(_)
SHA256Schedule(w) ==
    IF Len(w) = 64 THEN w
    ELSE LET t == Len(w) + 1
             w15 == w[t - 15]
             w2 == w[t - 2]
             s0 == Xor32(Xor32(Rotr32(w15, 7), Rotr32(w15, 18)), Shr32(w15, 3))
             s1 == Xor32(Xor32(Rotr32(w2, 17), Rotr32(w2, 19)), Shr32(w2, 10))
         IN SHA256Schedule(Append(w, Add32(Add32(w[t - 16], s0), Add32(w[t - 7], s1))))

\* one round of the compression function on the working variables a..h
SHA256Round(s, wt, kt) ==
    LET a == s[1]
        e == s[5]
        S1 == Xor32(Xor32(Rotr32(e, 6), Rotr32(e, 11)), Rotr32(e, 25))
        ch == Xor32(And32(e, s[6]), And32(Not32(e), s[7]))
        t1 == Add32(Add32(Add32(s[8], S1), Add32(ch, kt)), wt)
        S0 == Xor32(Xor32(Rotr32(a, 2), Rotr32(a, 13)), Rotr32(a, 22))
        maj == Xor32(Xor32(And32(a, s[2]), And32(a, s[3])), And32(s[2], s[3]))
        t2 == Add32(S0, maj)
    IN <<Add32(t1, t2), a, s[2], s[3], Add32(s[4], t1), e, s[6], s[7]>>

\* rounds t..64 (Len(s) makes TLC compute s before the next round)
RECURSIVE SHA256Rounds(_, _, _)
SHA256Rounds(s, w, t) ==
    IF t > 64 \/ Len(s) # 8 THEN s
    ELSE SHA256Rounds(SHA256Round(s, w[t], SHA256_K[t]), w, t + 1)

RECURSIVE SHA256Blocks(_, _)
SHA256Blocks(h, padded) ==
    IF padded = <<>> THEN h
    ELSE LET w16 == [i \in 1..16 |->
                        <<(padded[4 * i - 3] * 256) + padded[4 * i - 2],
                          (padded[4 * i - 1] * 256) + padded[4 * i]>>]
             s == SHA256Rounds(h, SHA256Schedule(w16), 1)
         IN SHA256Blocks([i \in 1..8 |-> Add32(h[i], s[i])],
                         SubSeq(padded, 65, Len(padded)))

\* sha256.Sum256: the 32 bytes of the digest
Sum256(msg) ==
    LET h == SHA256Blocks(SHA256_H0, SHA256Pad(msg))
    IN [i \in 1..32 |->
          LET word == h[(i + 3) \div 4]
              half == IF ((i - 1) % 4) < 2 THEN word[1] ELSE word[2]
          IN IF (i % 2) = 1 THEN half \div 256 ELSE half % 256]

\* base64.RawURLEncoding.EncodeToString: 6 bits per character, no padding
RECURSIVE RawURLEncode(_)
RawURLEncode(b) ==
    IF Len(b) = 0 THEN <<>>
    ELSE IF Len(b) = 1 THEN
        <<Base64URLAlphabet[(b[1] \div 4) + 1], Base64URLAlphabet[((b[1] % 4) * 16) + 1]>>
    ELSE IF Len(b) = 2 THEN
        <<Base64URLAlphabet[(b[1] \div 4) + 1],
          Base64URLAlphabet[((b[1] % 4) * 16) + (b[2] \div 16) + 1],
          Base64URLAlphabet[((b[2] % 16) * 4) + 1]>>
    ELSE
        <<Base64URLAlphabet[(b[1] \div 4) + 1],
          Base64URLAlphabet[((b[1] % 4) * 16) + (b[2] \div 16) + 1],
          Base64URLAlphabet[((b[2] % 16) * 4) + (b[3] \div 64) + 1],
          Base64URLAlphabet[(b[3] % 64) + 1]>> \o RawURLEncode(SubSeq(b, 4, Len(b)))

---------------------------------------------------------------------------
(* Collaborators of access.go that live in other files of the repository *)

\* Storage.GetClientData: the registered clients (read-only here)
ClientStore ==
    [c \in {"c1", "c2"} |->
        IF c = "c1" THEN [ClientID |-> "c1", RedirectURI |-> <<"u1", "u2">>]
        ELSE [ClientID |-> "c2", RedirectURI |-> <<"u3">>]]

\* getClientAuthFromRequest: the credentials the request carries, or an error
getClientAuthFromRequest(r) ==
    IF r.auth = "" THEN [auth |-> "", err |-> E_INVALID_REQUEST]
    ELSE [auth |-> r.auth, err |-> ""]

\* getClientDataFromBasicAuth: the ClientData the credentials resolve to, or an error
getClientDataFromBasicAuth(auth) ==
    IF auth \in DOMAIN ClientStore THEN [client |-> ClientStore[auth], err |-> ""]
    ELSE [client |-> Nil, err |-> E_INVALID_CLIENT]

\* firstURI: the first URI of the client's redirect-URI list
firstURI(uris) == IF uris = <<>> THEN "" ELSE uris[1]

\* AllowedAccessTypes.Exists
Exists(allowed, grantType) == grantType \in allowed

\* pkceMatcher.MatchString: ^[A-Za-z0-9\-._~]{43,128}$
pkceMatcher(v) ==
    /\ Len(v) >= 43
    /\ Len(v) <= 128
    /\ \A i \in 1..Len(v) :
          v[i] \in (65..90) \cup (97..122) \cup (48..57) \cup {45, 46, 95, 126}

\* AuthorizeData.IsExpiredAt: ExpireAt().Before(t)
AuthorizeIsExpiredAt(d, t) == d.CreatedAt + d.ExpiresIn < t

---------------------------------------------------------------------------
(* AccessData, src/access.go:60-113 *)

\* AccessData.ExpireAt, src/access.go:111-113
ExpireAt(d) == d.CreatedAt + d.ExpiresIn

\* AccessData.IsExpiredAt, src/access.go:106-108 (time.Time.Before is strict)
IsExpiredAt(d, t) == ExpireAt(d) < t

---------------------------------------------------------------------------
(* The grant handlers.  Each returns [ar, err]: the AccessRequest and "",   *)
(* or Nil and the error code.  HTTPRequest is left out of the AccessRequest *)
(* (nothing in access.go reads it back).                                    *)

Rejected(code) == [ar |-> Nil, err |-> code]

Validated(ar) == [ar |-> ar, err |-> ""]

\* the S256 transform of src/access.go:233-234
S256(v) == RawURLEncode(Sum256(v))

\* the PKCE check without the comparison of src/access.go:238-240
VerifyPKCENoCompare(ad, verifier) ==
    IF Len(ad.CodeChallenge) > 0 THEN
        IF ~pkceMatcher(verifier) THEN E_INVALID_REQUEST
        ELSE IF ad.CodeChallengeMethod \notin {"", PKCE_PLAIN, PKCE_S256}
            THEN E_INVALID_REQUEST
        ELSE ""
    ELSE ""

\* src/access.go:220-241: "" when the verifier passes, else the error code
VerifyPKCE(ad, verifier) ==
    IF Len(ad.CodeChallenge) > 0 THEN
        IF ~pkceMatcher(verifier) THEN E_INVALID_REQUEST
        ELSE IF ad.CodeChallengeMethod \notin {"", PKCE_PLAIN, PKCE_S256}
            THEN E_INVALID_REQUEST
        ELSE LET codeVerifier ==
                     IF ad.CodeChallengeMethod = PKCE_S256 THEN S256(verifier)
                     ELSE verifier
             IN IF codeVerifier # ad.CodeChallenge THEN E_INVALID_GRANT ELSE ""
    ELSE ""

\* the end of handleAuthorizationCodeRequest, src/access.go:238-247: pkce is the
\* outcome of the PKCE check
AuthorizationCodeResult(pkce, ar) == IF pkce # "" THEN Rejected(pkce) ELSE Validated(ar)

\* the checks on the loaded AuthorizeData without the expiry check of
\* src/access.go:215-218
CheckAuthorizeDataNoExpiry(ad, client, t) ==
    IF ad.ClientID # client.ClientID THEN E_INVALID_GRANT ELSE ""

\* the same checks without the client binding check of src/access.go:210-213
CheckAuthorizeDataNoBinding(ad, client, t) ==
    IF AuthorizeIsExpiredAt(ad, t) THEN E_INVALID_GRANT ELSE ""

\* the checks on the loaded AuthorizeData, src/access.go:210-218: "" when the
\* code is bound to the authenticated client and is not expired at t
CheckAuthorizeData(ad, client, t) ==
    IF ad.ClientID # client.ClientID THEN E_INVALID_GRANT
    ELSE IF AuthorizeIsExpiredAt(ad, t) THEN E_INVALID_GRANT
    ELSE ""

\* Server.handleAuthorizationCodeRequest, src/access.go:175-248
handleAuthorizationCodeRequest(r, cfg, authorizeData, t) ==
    LET auth == getClientAuthFromRequest(r)
        clientData == getClientDataFromBasicAuth(auth.auth)
        ad == authorizeData[r.code]
    IN IF auth.err # "" THEN Rejected(E_INVALID_REQUEST)
       ELSE IF r.code = "" THEN Rejected(E_INVALID_GRANT)
       ELSE IF clientData.err # "" THEN Rejected(clientData.err)
       ELSE IF r.code \notin DOMAIN authorizeData THEN Rejected(E_INVALID_GRANT)
       ELSE IF CheckAuthorizeData(ad, clientData.client, t) # ""
            THEN Rejected(CheckAuthorizeData(ad, clientData.client, t))
       ELSE AuthorizationCodeResult(
                VerifyPKCE(ad, r.code_verifier),
                [GrantType |-> AUTHORIZATION_CODE,
                 Code |-> r.code,
                 CodeVerifier |-> r.code_verifier,
                 GenerateRefresh |-> TRUE,
                 Expiration |-> cfg.AccessExpiration,
                 ClientData |-> clientData.client,
                 AuthorizeData |-> ad,
                 PreviousRefreshToken |-> Nil,
                 RedirectURI |-> "",
                 Scope |-> ad.Scope,
                 UserData |-> ad.UserData,
                 Username |-> "",
                 Password |-> ""])

\* Server.handleRefreshTokenRequest, src/access.go:274-326
handleRefreshTokenRequest(r, cfg, refreshData) ==
    LET auth == getClientAuthFromRequest(r)
        clientData == getClientDataFromBasicAuth(auth.auth)
        prev == refreshData[r.refresh_token]
        scope == IF r.scope = <<>> THEN prev.Scope ELSE r.scope
    IN IF auth.err # "" THEN Rejected(auth.err)
       ELSE IF r.refresh_token = "" THEN Rejected(E_INVALID_GRANT)
       ELSE IF clientData.err # "" THEN Rejected(clientData.err)
       ELSE IF r.refresh_token \notin DOMAIN refreshData THEN Rejected(E_INVALID_GRANT)
       ELSE IF prev.ClientID # clientData.client.ClientID THEN Rejected(E_INVALID_CLIENT)
       ELSE IF extraScopes(prev.Scope, scope) THEN Rejected(E_ACCESS_DENIED)
       ELSE Validated([GrantType |-> REFRESH_TOKEN,
                       Code |-> r.refresh_token,
                       CodeVerifier |-> <<>>,
                       GenerateRefresh |-> TRUE,
                       Expiration |-> cfg.AccessExpiration,
                       ClientData |-> clientData.client,
                       AuthorizeData |-> Nil,
                       PreviousRefreshToken |-> prev,
                       RedirectURI |-> prev.RedirectURI,
                       Scope |-> scope,
                       UserData |-> prev.UserData,
                       Username |-> "",
                       Password |-> ""])

\* Server.handlePasswordRequest, src/access.go:328-365
handlePasswordRequest(r, cfg) ==
    LET auth == getClientAuthFromRequest(r)
        clientData == getClientDataFromBasicAuth(auth.auth)
    IN IF auth.err # "" THEN Rejected(auth.err)
       ELSE IF r.username = "" THEN Rejected(E_INVALID_GRANT)
       ELSE IF r.password = "" THEN Rejected(E_INVALID_GRANT)
       ELSE IF clientData.err # "" THEN Rejected(clientData.err)
       ELSE Validated([GrantType |-> PASSWORD,
                       Code |-> "",
                       CodeVerifier |-> <<>>,
                       GenerateRefresh |-> TRUE,
                       Expiration |-> cfg.AccessExpiration,
                       ClientData |-> clientData.client,
                       AuthorizeData |-> Nil,
                       PreviousRefreshToken |-> Nil,
                       RedirectURI |-> firstURI(clientData.client.RedirectURI),
                       Scope |-> r.scope,
                       UserData |-> "",
                       Username |-> r.username,
                       Password |-> r.password])

\* the client-credentials handler with GenerateRefresh set, against
\* src/access.go:377
handleClientCredentialsRequestWithRefresh(r, cfg) ==
    LET auth == getClientAuthFromRequest(r)
        clientData == getClientDataFromBasicAuth(auth.auth)
    IN IF auth.err # "" THEN Rejected(auth.err)
       ELSE IF clientData.err # "" THEN Rejected(clientData.err)
       ELSE Validated([GrantType |-> CLIENT_CREDENTIALS,
                       Code |-> "",
                       CodeVerifier |-> <<>>,
                       GenerateRefresh |-> TRUE,
                       Expiration |-> cfg.AccessExpiration,
                       ClientData |-> clientData.client,
                       AuthorizeData |-> Nil,
                       PreviousRefreshToken |-> Nil,
                       RedirectURI |-> firstURI(clientData.client.RedirectURI),
                       Scope |-> r.scope,
                       UserData |-> "",
                       Username |-> "",
                       Password |-> ""])

\* Server.handleClientCredentialsRequest, src/access.go:367-393
handleClientCredentialsRequest(r, cfg) ==
    LET auth == getClientAuthFromRequest(r)
        clientData == getClientDataFromBasicAuth(auth.auth)
    IN IF auth.err # "" THEN Rejected(auth.err)
       ELSE IF clientData.err # "" THEN Rejected(clientData.err)
       ELSE Validated([GrantType |-> CLIENT_CREDENTIALS,
                       Code |-> "",
                       CodeVerifier |-> <<>>,
                       GenerateRefresh |-> FALSE,
                       Expiration |-> cfg.AccessExpiration,
                       ClientData |-> clientData.client,
                       AuthorizeData |-> Nil,
                       PreviousRefreshToken |-> Nil,
                       RedirectURI |-> firstURI(clientData.client.RedirectURI),
                       Scope |-> r.scope,
                       UserData |-> "",
                       Username |-> "",
                       Password |-> ""])

\* the method check of src/access.go:151-156
MethodRejected(r, cfg) ==
    IF r.Method = "GET" /\ ~cfg.AllowGetAccessRequest THEN TRUE
    ELSE r.Method # "POST"

\* the dispatch with a password case that does not consult the allow-list
GenerateAccessRequestPasswordUnlisted(r, cfg, authorizeData, refreshData, t) ==
    IF MethodRejected(r, cfg) THEN Rejected(E_INVALID_REQUEST)
    ELSE IF Exists(cfg.AllowedAccessTypes, r.grant_type)
                /\ r.grant_type = AUTHORIZATION_CODE
        THEN handleAuthorizationCodeRequest(r, cfg, authorizeData, t)
    ELSE IF Exists(cfg.AllowedAccessTypes, r.grant_type)
                /\ r.grant_type = REFRESH_TOKEN
        THEN handleRefreshTokenRequest(r, cfg, refreshData)
    ELSE IF r.grant_type = PASSWORD
        THEN handlePasswordRequest(r, cfg)
    ELSE IF Exists(cfg.AllowedAccessTypes, r.grant_type)
                /\ r.grant_type = CLIENT_CREDENTIALS
        THEN handleClientCredentialsRequest(r, cfg)
    ELSE Rejected(E_UNSUPPORTED_GRANT_TYPE)

\* Server.GenerateAccessRequest, src/access.go:150-173
GenerateAccessRequest(r, cfg, authorizeData, refreshData, t) ==
    IF MethodRejected(r, cfg) THEN Rejected(E_INVALID_REQUEST)
    ELSE IF Exists(cfg.AllowedAccessTypes, r.grant_type)
                /\ r.grant_type = AUTHORIZATION_CODE
        THEN handleAuthorizationCodeRequest(r, cfg, authorizeData, t)
    ELSE IF Exists(cfg.AllowedAccessTypes, r.grant_type)
                /\ r.grant_type = REFRESH_TOKEN
        THEN handleRefreshTokenRequest(r, cfg, refreshData)
    ELSE IF Exists(cfg.AllowedAccessTypes, r.grant_type)
                /\ r.grant_type = PASSWORD
        THEN handlePasswordRequest(r, cfg)
    ELSE IF Exists(cfg.AllowedAccessTypes, r.grant_type)
                /\ r.grant_type = CLIENT_CREDENTIALS
        THEN handleClientCredentialsRequest(r, cfg)
    ELSE Rejected(E_UNSUPPORTED_GRANT_TYPE)

---------------------------------------------------------------------------
(* The environment: configurations, stored records and inbound requests *)

\* scopes "a", "a,b", "a,d"
ScopeA == <<"a">>

ScopeAB == <<"a", ",", "b">>

ScopeAD == <<"a", ",", "d">>

\* every string of at most n characters over "a", "b", "d" and ","
RECURSIVE ScopeStrings(_)
ScopeStrings(n) ==
    IF n = 0 THEN {<<>>}
    ELSE ScopeStrings(n - 1) \cup
         {Append(sc, ch) : sc \in {x \in ScopeStrings(n - 1) : Len(x) = n - 1},
                           ch \in {"a", "b", "d", ","}}

\* two well-formed 43-character verifiers, "aaa...a" and "bbb...b"
VerifierA == [i \in 1..43 |-> 97]

VerifierB == [i \in 1..43 |-> 98]

\* the RFC 7636 verifier with one character replaced by "A", "~" or "!",
\* or with its last character dropped
MutatedVerifiers ==
    {[RFCVerifier EXCEPT ![i] = ch] : i \in 1..Len(RFCVerifier), ch \in {65, 126, 33}}
    \cup {SubSeq(RFCVerifier, 1, Len(RFCVerifier) - 1)}

AllGrantTypes == {AUTHORIZATION_CODE, REFRESH_TOKEN, PASSWORD, CLIENT_CREDENTIALS}

DefaultConfig ==
    [AllowGetAccessRequest |-> FALSE, AllowedAccessTypes |-> AllGrantTypes,
     AccessExpiration |-> 1, TokenType |-> "Bearer"]

Configs ==
    {[DefaultConfig EXCEPT !.AllowGetAccessRequest = g, !.AllowedAccessTypes = a] :
        g \in BOOLEAN,
        a \in {AllGrantTypes, AllGrantTypes \cup {IMPLICIT},
               {AUTHORIZATION_CODE, REFRESH_TOKEN}}}

\* the authorization codes the authorization endpoint has issued: k1 without
\* PKCE and soon expired, k2 with a plain challenge, k3 with the S256 challenge
\* of RFC 7636, k4 soon expired with a challenge method the server does not know
InitAuthorizeStore ==
    [c \in {"k1", "k2", "k3", "k4"} |->
        CASE c = "k1" ->
               [Code |-> "k1", ClientID |-> "c1", CreatedAt |-> 0, ExpiresIn |-> 0,
                Scope |-> ScopeAB, UserData |-> "ud1", RedirectURI |-> "u1",
                CodeChallenge |-> <<>>, CodeChallengeMethod |-> ""]
          [] c = "k2" ->
               [Code |-> "k2", ClientID |-> "c2", CreatedAt |-> 0, ExpiresIn |-> 9,
                Scope |-> ScopeA, UserData |-> "ud2", RedirectURI |-> "u3",
                CodeChallenge |-> VerifierA, CodeChallengeMethod |-> PKCE_PLAIN]
          [] c = "k3" ->
               [Code |-> "k3", ClientID |-> "c1", CreatedAt |-> 0, ExpiresIn |-> 9,
                Scope |-> ScopeA, UserData |-> "ud3", RedirectURI |-> "u1",
                CodeChallenge |-> RFCChallenge, CodeChallengeMethod |-> PKCE_S256]
          [] c = "k4" ->
               [Code |-> "k4", ClientID |-> "c1", CreatedAt |-> 0, ExpiresIn |-> 0,
                Scope |-> ScopeA, UserData |-> "ud4", RedirectURI |-> "u1",
                CodeChallenge |-> VerifierA, CodeChallengeMethod |-> "S512"]]

\* a refresh token issued earlier, with the scope it was granted
InitRefreshStore(scope) ==
    [t \in {"r1"} |->
        [ClientID |-> "c1", RefreshToken |-> "r1", CreatedAt |-> 0,
         RedirectURI |-> "u1", Scope |-> scope, UserData |-> "ud1"]]

\* AccessTokenGenerator: the n-th token string it returns
Token(n) == "t" \o ToString(n)

Request(method, grant, auth, code, verifier, refresh, scope, username, password) ==
    [Method |-> method, grant_type |-> grant, auth |-> auth, code |-> code,
     code_verifier |-> verifier, refresh_token |-> refresh, scope |-> scope,
     username |-> username, password |-> password]

NoRequest == Request("", "", "", "", <<>>, "", <<>>, "", "")

\* no credentials, the two registered clients, an unknown client
AuthInputs == {"", "c1", "c2", "cX"}

\* Inbound requests.  Every field a handler reads takes its values; the fields
\* it never reads stay blank.

\* every method with every grant_type, the other fields well-formed
DispatchRequests ==
    {Request(m, g, "c1", "k2", VerifierA, "r1", <<>>, "u", "p") :
        m \in {"POST", "GET", "PUT"}, g \in AllGrantTypes \cup {IMPLICIT, "bogus"}}

AuthorizationCodeRequests ==
    {Request("POST", AUTHORIZATION_CODE, a, c, v, "", <<>>, "", "") :
        a \in AuthInputs, c \in {"", "k1", "k2", "k3", "k4", "kX"},
        v \in {<<>>, VerifierA, VerifierB, RFCVerifier}}

PKCERequests ==
    {Request("POST", AUTHORIZATION_CODE, "c1", "k3", v, "", <<>>, "", "") :
        v \in MutatedVerifiers}

RefreshTokenRequests ==
    {Request("POST", REFRESH_TOKEN, a, "", <<>>, t, sc, "", "") :
        a \in AuthInputs, t \in {"", "r1", "rX"}, sc \in {<<>>, ScopeA, ScopeAD}}

ScopeRequests(n) ==
    {Request("POST", REFRESH_TOKEN, "c1", "", <<>>, "r1", sc, "", "") :
        sc \in ScopeStrings(n)}

PasswordRequests ==
    {Request("POST", PASSWORD, a, "", <<>>, "", sc, u, pw) :
        a \in AuthInputs, sc \in {<<>>, ScopeAB}, u \in {"", "u"}, pw \in {"", "p"}}

ClientCredentialsRequests ==
    {Request("POST", CLIENT_CREDENTIALS, a, "", <<>>, "", sc, "", "") :
        a \in AuthInputs, sc \in {<<>>, ScopeAB}}

\* the requests that arrive while others are in flight (known: the refresh
\* token strings issued so far)
Requests(known) ==
    {Request("GET", PASSWORD, "c1", "", <<>>, "", <<>>, "u", "p"),
     Request("POST", AUTHORIZATION_CODE, "c1", "k1", <<>>, "", <<>>, "", ""),
     Request("POST", AUTHORIZATION_CODE, "c2", "k1", <<>>, "", <<>>, "", ""),
     Request("POST", AUTHORIZATION_CODE, "c2", "k2", VerifierA, "", <<>>, "", ""),
     Request("POST", PASSWORD, "c1", "", <<>>, "", ScopeAB, "u", "p"),
     Request("POST", CLIENT_CREDENTIALS, "c1", "", <<>>, "", ScopeAB, "", "")}
    \cup {Request("POST", REFRESH_TOKEN, "c1", "", <<>>, t, sc, "", "") :
            t \in known, sc \in {<<>>, ScopeA, ScopeAD}}

---------------------------------------------------------------------------
(* State *)

Idle == [pc |-> "idle", ar |-> Nil, ret |-> Nil, rt |-> Nil]

Received == [pc |-> "received", ar |-> Nil, ret |-> Nil, rt |-> Nil]

NoResponse == [err |-> "none", ar |-> Nil, Data |-> <<>>]

\* history of the credentials (codes and refresh tokens): exchanged with
\* success once and more than once, loaded by a request while another request
\* holding the same credential was in flight, whose delete call failed, whose
\* delete call succeeded; the refresh tokens delivered in a response; what
\* the latest call of the callback returned; and, for each token minted on a
\* refresh-token grant, the scope of the refresh token record its rotation
\* chain started from
NoHistory ==
    [once |-> {}, twice |-> {}, raced |-> {}, delFailed |-> {}, deleted |-> {},
     delivered |-> {}, gate |-> "none", origin |-> {}]

\* the server as constructed, nothing received yet
Init ==
    /\ Config = DefaultConfig
    /\ now = 0
    /\ authorizeStore = InitAuthorizeStore
    /\ refreshStore = InitRefreshStore(ScopeAB)
    /\ accessStore = {}
    /\ nextToken = 0
    /\ proc = [p \in Procs |-> Idle]
    /\ lastRequest = NoRequest
    /\ response = NoResponse
    /\ numRequests = 0
    /\ hist = NoHistory

\* one request has arrived: the configuration, the time, the stored scope and
\* the request are drawn from the sets above
InitRequest ==
    /\ \/ /\ Config \in Configs
          /\ now = 0
          /\ lastRequest \in DispatchRequests
          /\ refreshStore = InitRefreshStore(ScopeAB)
       \/ /\ Config = DefaultConfig
          /\ now \in 0..MaxTime
          /\ lastRequest \in AuthorizationCodeRequests
          /\ refreshStore = InitRefreshStore(ScopeAB)
       \/ /\ Config = DefaultConfig
          /\ now = 0
          /\ lastRequest \in PKCERequests \cup RefreshTokenRequests
                             \cup PasswordRequests \cup ClientCredentialsRequests
          /\ refreshStore = InitRefreshStore(ScopeAB)
       \/ /\ Config = DefaultConfig
          /\ now = 0
          /\ lastRequest \in ScopeRequests(MaxScopeLen)
          /\ \E sc \in {<<>>, ScopeA, ScopeAB, <<",", "b", ",", ",", "a">>} :
                refreshStore = InitRefreshStore(sc)
    /\ authorizeStore = InitAuthorizeStore
    /\ accessStore = {}
    /\ nextToken = 0
    /\ proc = [p \in Procs |-> IF p = "p1" THEN Received ELSE Idle]
    /\ response = NoResponse
    /\ numRequests = 0
    /\ hist = NoHistory

\* toNisoError(err).AsResponse(): the error response for a request
ErrorResponse(code, ar) == [err |-> code, ar |-> ar, Data |-> <<>>]

\* the credential a request consumes: its authorization code or refresh token
Consumes(ar) ==
    IF ar.AuthorizeData # Nil THEN {ar.AuthorizeData.Code}
    ELSE IF ar.PreviousRefreshToken # Nil THEN {ar.PreviousRefreshToken.RefreshToken}
    ELSE {}

InFlight(p) == proc[p].pc \notin {"idle", "received"}

---------------------------------------------------------------------------
(* Actions *)

\* Server.HandleAccessRequest up to the callback, src/access.go:124-128, for
\* request r, g being what GenerateAccessRequest returned
Handled(p, r, g) ==
    /\ lastRequest' = r
    /\ numRequests' = numRequests + 1
    /\ IF g.err # ""
       THEN /\ response' = ErrorResponse(g.err, Nil)
            /\ proc' = [proc EXCEPT ![p] = Idle]
            /\ UNCHANGED hist
       ELSE /\ proc' = [proc EXCEPT ![p] = [pc |-> "gate", ar |-> g.ar,
                                           ret |-> Nil, rt |-> Nil]]
            /\ hist' = [hist EXCEPT !.raced = @ \cup
                          {c \in Consumes(g.ar) :
                              \E q \in Procs \ {p} : /\ InFlight(q)
                                                     /\ c \in Consumes(proc[q].ar)}]
            /\ UNCHANGED response
    /\ UNCHANGED <<Config, now, authorizeStore, refreshStore, accessStore, nextToken>>

Handle(p, r) ==
    Handled(p, r, GenerateAccessRequest(r, Config, authorizeStore, refreshStore, now))

\* the refresh token strings clients hold: the one issued earlier and those
\* delivered in responses, the ones already rotated out included
RefreshTokensIssued == DOMAIN InitRefreshStore(ScopeAB) \cup hist.delivered

\* a request arrives and is handled; it is served by the first free slot
HandleAccessRequest(p) ==
    /\ proc[p].pc = "idle"
    /\ p = "p1" \/ proc["p1"].pc # "idle"
    /\ numRequests < MaxRequests
    /\ \E r \in Requests(RefreshTokensIssued) : Handle(p, r)

\* the request that has arrived (lastRequest) is handled
ReceivedAccessRequest(p) ==
    /\ proc[p].pc = "received"
    /\ Handle(p, lastRequest)

\* the callback with a returned error taken for a denial, against
\* src/access.go:131-134
isAuthorizedCbErrorAsDenial(p) ==
    /\ proc[p].pc = "gate"
    /\ \E outcome \in {"allow", "deny", "error"} :
          /\ hist' = [hist EXCEPT !.gate = outcome]
          /\ IF outcome \in {"error", "deny"}
             THEN /\ response' = ErrorResponse(E_ACCESS_DENIED, proc[p].ar)
                  /\ proc' = [proc EXCEPT ![p] = Idle]
             ELSE /\ proc' = [proc EXCEPT ![p].pc = "finish"]
                  /\ UNCHANGED response
    /\ UNCHANGED <<Config, now, authorizeStore, refreshStore, accessStore, nextToken,
                   lastRequest, numRequests>>

\* the callback with its verdict not read, against src/access.go:136-139: a
\* denied request goes on to FinishAccessRequest
isAuthorizedCbVerdictIgnored(p) ==
    /\ proc[p].pc = "gate"
    /\ \E outcome \in {"allow", "deny", "error"} :
          /\ hist' = [hist EXCEPT !.gate = outcome]
          /\ IF outcome = "error"
             THEN /\ response' = ErrorResponse(E_SERVER_ERROR, proc[p].ar)
                  /\ proc' = [proc EXCEPT ![p] = Idle]
             ELSE /\ proc' = [proc EXCEPT ![p].pc = "finish"]
                  /\ UNCHANGED response
    /\ UNCHANGED <<Config, now, authorizeStore, refreshStore, accessStore, nextToken,
                   lastRequest, numRequests>>

\* the callback and its outcomes, src/access.go:130-139: it returns (true, nil),
\* (false, nil) or an error
isAuthorizedCb(p) ==
    /\ proc[p].pc = "gate"
    /\ \E outcome \in {"allow", "deny", "error"} :
          /\ hist' = [hist EXCEPT !.gate = outcome]
          /\ IF outcome = "error"
             THEN /\ response' = ErrorResponse(E_SERVER_ERROR, proc[p].ar)
                  /\ proc' = [proc EXCEPT ![p] = Idle]
             ELSE IF outcome = "deny"
             THEN /\ response' = ErrorResponse(E_ACCESS_DENIED, proc[p].ar)
                  /\ proc' = [proc EXCEPT ![p] = Idle]
             ELSE /\ proc' = [proc EXCEPT ![p].pc = "finish"]
                  /\ UNCHANGED response
    /\ UNCHANGED <<Config, now, authorizeStore, refreshStore, accessStore, nextToken,
                   lastRequest, numRequests>>

\* the AccessData of src/access.go:399-416, with its token string
NewAccessData(ar, t, token) ==
    [ClientData |-> ar.ClientData,
     RedirectURI |-> ar.RedirectURI,
     CreatedAt |-> t,
     ExpiresIn |-> ar.Expiration,
     UserData |-> ar.UserData,
     Scope |-> ar.Scope,
     AccessToken |-> token]

\* the RefreshTokenData of src/access.go:426-432: RedirectURI is not set
NewRefreshTokenData(ar, t, token) ==
    [ClientID |-> ar.ClientData.ClientID,
     CreatedAt |-> t,
     UserData |-> ar.UserData,
     Scope |-> ar.Scope,
     RedirectURI |-> "",
     RefreshToken |-> token]

\* the scope of the originally issued refresh token record of the chain that
\* the presented refresh token record prev belongs to
OriginScope(h, prev) ==
    IF \E e \in h.origin : e.token = prev.RefreshToken
    THEN (CHOOSE e \in h.origin : e.token = prev.RefreshToken).scope
    ELSE prev.Scope

\* history: the tokens generated for a refresh-token grant continue the chain
\* of its req.PreviousRefreshToken (src/access.go:300, 419, 432)
Minted(h, ar, tokens) ==
    IF ar.PreviousRefreshToken = Nil THEN h
    ELSE [h EXCEPT !.origin = @ \cup
             {[token |-> t, scope |-> OriginScope(h, ar.PreviousRefreshToken)] :
                 t \in tokens}]

\* Server.FinishAccessRequest up to its first Storage call, src/access.go:396-435
FinishAccessRequest(p) ==
    /\ proc[p].pc = "finish"
    /\ LET ar == proc[p].ar IN
       \E accessOK \in BOOLEAN, refreshOK \in BOOLEAN :
          IF ~accessOK
          THEN /\ refreshOK
               /\ response' = ErrorResponse(E_SERVER_ERROR, ar)
               /\ proc' = [proc EXCEPT ![p] = Idle]
               /\ UNCHANGED nextToken
          ELSE IF ~ar.GenerateRefresh
          THEN /\ refreshOK
               /\ proc' = [proc EXCEPT ![p].pc = "saveAccess",
                                       ![p].ret = NewAccessData(ar, now, Token(nextToken + 1))]
               /\ nextToken' = nextToken + 1
               /\ UNCHANGED response
          ELSE IF ~refreshOK
          THEN /\ response' = ErrorResponse(E_SERVER_ERROR, ar)
               /\ proc' = [proc EXCEPT ![p] = Idle]
               /\ nextToken' = nextToken + 1
          ELSE /\ proc' = [proc EXCEPT ![p].pc = "saveRefresh",
                                       ![p].ret = NewAccessData(ar, now, Token(nextToken + 1)),
                                       ![p].rt = NewRefreshTokenData(ar, now, Token(nextToken + 2))]
               /\ nextToken' = nextToken + 2
               /\ UNCHANGED response
    /\ hist' = Minted(hist, proc[p].ar, {Token(n) : n \in (nextToken + 1)..nextToken'})
    /\ UNCHANGED <<Config, now, authorizeStore, refreshStore, accessStore,
                   lastRequest, numRequests>>

\* the response of src/access.go:397, 443, 461-470
SuccessResponse(pr, cfg) ==
    [err |-> "", ar |-> pr.ar,
     Data |-> [k \in {"access_token", "token_type", "expires_in"}
                     \cup (IF pr.rt # Nil THEN {"refresh_token"} ELSE {})
                     \cup (IF pr.ar.Scope # <<>> THEN {"scope"} ELSE {}) |->
                 CASE k = "access_token" -> pr.ret.AccessToken
                   [] k = "token_type" -> cfg.TokenType
                   [] k = "expires_in" -> pr.ret.ExpiresIn
                   [] k = "refresh_token" -> pr.rt.RefreshToken
                   [] k = "scope" -> pr.ar.Scope]]

\* history: the credential of a request that ended in success, and the refresh
\* token its response carries
Succeeded(h, pr) ==
    [h EXCEPT !.twice = @ \cup (Consumes(pr.ar) \cap h.once),
              !.once = @ \cup Consumes(pr.ar),
              !.delivered = @ \cup (IF pr.rt # Nil THEN {pr.rt.RefreshToken} ELSE {})]

\* the rest of FinishAccessRequest after a Storage call that leaves position pc
Continue(p, pc, h) ==
    IF pc = "respond"
    THEN /\ response' = SuccessResponse(proc[p], Config)
         /\ proc' = [proc EXCEPT ![p] = Idle]
         /\ hist' = Succeeded(h, proc[p])
    ELSE /\ proc' = [proc EXCEPT ![p].pc = pc]
         /\ hist' = h
         /\ UNCHANGED response

\* the SaveRefreshTokenData call without the return of src/access.go:439: on
\* an error FinishAccessRequest goes on to SaveAccessData
SaveRefreshTokenDataErrorDropped(p) ==
    /\ proc[p].pc = "saveRefresh"
    /\ \E ok \in BOOLEAN :
          /\ refreshStore' =
                IF ok
                THEN [t \in DOMAIN refreshStore \cup {proc[p].rt.RefreshToken} |->
                         IF t = proc[p].rt.RefreshToken THEN proc[p].rt
                         ELSE refreshStore[t]]
                ELSE refreshStore
          /\ proc' = [proc EXCEPT ![p].pc = "saveAccess"]
          /\ UNCHANGED response
    /\ UNCHANGED <<Config, now, authorizeStore, accessStore, nextToken,
                   lastRequest, numRequests, hist>>

\* Storage.SaveRefreshTokenData called at src/access.go:438
SaveRefreshTokenData(p) ==
    /\ proc[p].pc = "saveRefresh"
    /\ \E ok \in BOOLEAN :
          IF ok
          THEN /\ refreshStore' = [t \in DOMAIN refreshStore \cup {proc[p].rt.RefreshToken} |->
                                      IF t = proc[p].rt.RefreshToken THEN proc[p].rt
                                      ELSE refreshStore[t]]
               /\ proc' = [proc EXCEPT ![p].pc = "saveAccess"]
               /\ UNCHANGED response
          ELSE /\ response' = ErrorResponse(E_SERVER_ERROR, proc[p].ar)
               /\ proc' = [proc EXCEPT ![p] = Idle]
               /\ UNCHANGED refreshStore
    /\ UNCHANGED <<Config, now, authorizeStore, accessStore, nextToken,
                   lastRequest, numRequests, hist>>

\* FinishAccessRequest without the DeleteAuthorizeData call of src/access.go:452-454
AfterSaveKeepsCode(ar) ==
    IF ar.PreviousRefreshToken # Nil THEN "delRefresh" ELSE "respond"

\* FinishAccessRequest without the DeleteRefreshTokenData call of src/access.go:457-459
AfterSaveKeepsRefreshToken(ar) ==
    IF ar.AuthorizeData # Nil THEN "delAuth" ELSE "respond"

\* where FinishAccessRequest goes after SaveAccessData, src/access.go:451-459
AfterSave(ar) ==
    IF ar.AuthorizeData # Nil THEN "delAuth"
    ELSE IF ar.PreviousRefreshToken # Nil THEN "delRefresh"
    ELSE "respond"

\* where it goes after DeleteAuthorizeData, src/access.go:456-459
AfterDeleteAuthorize(ar) ==
    IF ar.PreviousRefreshToken # Nil THEN "delRefresh" ELSE "respond"

\* FinishAccessRequest with the two deletes of src/access.go:451-459 made
\* before the SaveAccessData call of src/access.go:447
SaveAccessDataAfterDeletes(p) ==
    /\ proc[p].pc = "saveAccess"
    /\ authorizeStore' =
          IF proc[p].ar.AuthorizeData # Nil
          THEN [c \in DOMAIN authorizeStore \ {proc[p].ar.AuthorizeData.Code} |->
                   authorizeStore[c]]
          ELSE authorizeStore
    /\ refreshStore' =
          IF proc[p].ar.PreviousRefreshToken # Nil
          THEN [t \in DOMAIN refreshStore \ {proc[p].ar.PreviousRefreshToken.RefreshToken} |->
                   refreshStore[t]]
          ELSE refreshStore
    /\ \E ok \in BOOLEAN :
          IF ok
          THEN /\ accessStore' = accessStore \cup {proc[p].ret}
               /\ Continue(p, "respond", [hist EXCEPT !.deleted = @ \cup Consumes(proc[p].ar)])
          ELSE /\ response' = ErrorResponse(E_SERVER_ERROR, proc[p].ar)
               /\ proc' = [proc EXCEPT ![p] = Idle]
               /\ hist' = [hist EXCEPT !.deleted = @ \cup Consumes(proc[p].ar)]
               /\ UNCHANGED accessStore
    /\ UNCHANGED <<Config, now, nextToken, lastRequest, numRequests>>

\* Storage.SaveAccessData called at src/access.go:447
SaveAccessData(p) ==
    /\ proc[p].pc = "saveAccess"
    /\ \E ok \in BOOLEAN :
          IF ok
          THEN /\ accessStore' = accessStore \cup {proc[p].ret}
               /\ Continue(p, AfterSave(proc[p].ar), hist)
          ELSE /\ response' = ErrorResponse(E_SERVER_ERROR, proc[p].ar)
               /\ proc' = [proc EXCEPT ![p] = Idle]
               /\ UNCHANGED <<accessStore, hist>>
    /\ UNCHANGED <<Config, now, authorizeStore, refreshStore, nextToken,
                   lastRequest, numRequests>>

\* Storage.DeleteAuthorizeData on a store: the record of the code is removed
RemoveAuthorizeData(store, code) == [c \in DOMAIN store \ {code} |-> store[c]]

\* Storage.DeleteRefreshTokenData on a store
RemoveRefreshTokenData(store, token) == [t \in DOMAIN store \ {token} |-> store[t]]

\* the DeleteAuthorizeData call with its error returned as server_error
DeleteAuthorizeDataErrorFatal(p) ==
    /\ proc[p].pc = "delAuth"
    /\ LET code == proc[p].ar.AuthorizeData.Code IN
       \E ok \in BOOLEAN :
          IF ok
          THEN /\ authorizeStore' = RemoveAuthorizeData(authorizeStore, code)
               /\ Continue(p, AfterDeleteAuthorize(proc[p].ar),
                           [hist EXCEPT !.deleted = @ \cup {code}])
          ELSE /\ UNCHANGED authorizeStore
               /\ response' = ErrorResponse(E_SERVER_ERROR, proc[p].ar)
               /\ proc' = [proc EXCEPT ![p] = Idle]
               /\ hist' = [hist EXCEPT !.delFailed = @ \cup {code}]
    /\ UNCHANGED <<Config, now, refreshStore, accessStore, nextToken,
                   lastRequest, numRequests>>

\* Storage.DeleteAuthorizeData called at src/access.go:452-454, its error dropped
DeleteAuthorizeData(p) ==
    /\ proc[p].pc = "delAuth"
    /\ LET code == proc[p].ar.AuthorizeData.Code IN
       \E ok \in BOOLEAN :
          /\ authorizeStore' = IF ok THEN RemoveAuthorizeData(authorizeStore, code)
                               ELSE authorizeStore
          /\ Continue(p, AfterDeleteAuthorize(proc[p].ar),
                      IF ok THEN [hist EXCEPT !.deleted = @ \cup {code}]
                      ELSE [hist EXCEPT !.delFailed = @ \cup {code}])
    /\ UNCHANGED <<Config, now, refreshStore, accessStore, nextToken,
                   lastRequest, numRequests>>

\* Storage.DeleteRefreshTokenData called at src/access.go:457-459, its error dropped
DeleteRefreshTokenData(p) ==
    /\ proc[p].pc = "delRefresh"
    /\ LET token == proc[p].ar.PreviousRefreshToken.RefreshToken IN
       \E ok \in BOOLEAN :
          /\ refreshStore' = IF ok THEN RemoveRefreshTokenData(refreshStore, token)
                             ELSE refreshStore
          /\ Continue(p, "respond",
                      IF ok THEN [hist EXCEPT !.deleted = @ \cup {token}]
                      ELSE [hist EXCEPT !.delFailed = @ \cup {token}])
    /\ UNCHANGED <<Config, now, authorizeStore, accessStore, nextToken,
                   lastRequest, numRequests>>

\* s.Now() advances
Tick ==
    /\ now < MaxTime
    /\ now' = now + 1
    /\ UNCHANGED <<Config, authorizeStore, refreshStore, accessStore, nextToken,
                   proc, lastRequest, response, numRequests, hist>>

Next ==
    \/ \E p \in Procs : HandleAccessRequest(p)
    \/ \E p \in Procs : isAuthorizedCb(p)
    \/ \E p \in Procs : FinishAccessRequest(p)
    \/ \E p \in Procs : SaveRefreshTokenData(p)
    \/ \E p \in Procs : SaveAccessData(p)
    \/ \E p \in Procs : DeleteAuthorizeData(p)
    \/ \E p \in Procs : DeleteRefreshTokenData(p)
    \/ Tick

\* requests arrive and are served concurrently
Spec == Init /\ [][Next]_vars

NextRequest ==
    \/ \E p \in Procs : ReceivedAccessRequest(p)
    \/ \E p \in Procs : isAuthorizedCb(p)
    \/ \E p \in Procs : FinishAccessRequest(p)
    \/ \E p \in Procs : SaveRefreshTokenData(p)
    \/ \E p \in Procs : SaveAccessData(p)
    \/ \E p \in Procs : DeleteAuthorizeData(p)
    \/ \E p \in Procs : DeleteRefreshTokenData(p)

\* one request, drawn from the whole input space, is served
SpecRequest == InitRequest /\ [][NextRequest]_vars

---------------------------------------------------------------------------
(* Properties.  A request has been "handled" once GenerateAccessRequest has *)
(* returned for it: it was either rejected (an error response with no       *)
(* AccessRequest, the slot idle again) or validated (the slot at the        *)
(* callback with the AccessRequest).                                        *)

\* the request was rejected by GenerateAccessRequest with this error code
RejectedWith(code) == response = ErrorResponse(code, Nil)

\* the step handles a request: GenerateAccessRequest returns for lastRequest'
HandledStep == numRequests' = numRequests + 1

\* the step handled the request by rejecting it with this error code
RejectedStep(code) ==
    /\ response' = ErrorResponse(code, Nil)
    /\ \A p \in Procs : proc'[p].pc = "gate" => proc[p].pc = "gate"

\* the step handled the request by validating it into the AccessRequest ar
ValidatedStep(ar) ==
    /\ response' = response
    /\ \E p \in Procs : /\ proc[p].pc # "gate"
                        /\ proc'[p] = [pc |-> "gate", ar |-> ar, ret |-> Nil, rt |-> Nil]

\* no token has been minted or persisted
NoTokenMinted ==
    /\ nextToken = 0
    /\ accessStore = {}
    /\ DOMAIN refreshStore = DOMAIN InitRefreshStore(ScopeAB)

\* a POST of this grant type by a registered client, the grant type allowed
AuthenticatedRequest(r, grant) ==
    /\ r.Method = "POST"
    /\ r.grant_type = grant
    /\ grant \in Config.AllowedAccessTypes
    /\ r.auth \in DOMAIN ClientStore

\* the error codes of a response
ErrorCodes ==
    {E_INVALID_REQUEST, E_INVALID_CLIENT, E_INVALID_GRANT, E_UNSUPPORTED_GRANT_TYPE,
     E_ACCESS_DENIED, E_SERVER_ERROR}

\* the authorization codes, as opposed to the refresh tokens
Codes == DOMAIN InitAuthorizeStore

\* the step handles a request by rejecting it, and mints and persists nothing
RejectedNothingMinted ==
    /\ \E code \in ErrorCodes : RejectedStep(code)
    /\ UNCHANGED <<nextToken, accessStore, refreshStore, authorizeStore>>

\* the step ends an authorization-code exchange of this code in a token response
CodeExchangeCompletes(code) ==
    /\ response' # response
    /\ response'.err = ""
    /\ response'.ar.GrantType = AUTHORIZATION_CODE
    /\ response'.ar.Code = code

\* the step ends a refresh-token exchange of this token in a token response
RefreshExchangeCompletes(token) ==
    /\ response' # response
    /\ response'.err = ""
    /\ response'.ar.GrantType = REFRESH_TOKEN
    /\ response'.ar.Code = token

\* a step that takes code records away is the DeleteAuthorizeData call of an
\* exchange, and takes away the record of its code and no other
OnlyExchangedCodeDeleted ==
    (authorizeStore' # authorizeStore)
    => \E p \in Procs :
          /\ proc[p].pc = "delAuth"
          /\ proc[p].ar.Code \in DOMAIN authorizeStore
          /\ DOMAIN authorizeStore' = DOMAIN authorizeStore \ {proc[p].ar.Code}
          /\ \A c \in DOMAIN authorizeStore' : authorizeStore'[c] = authorizeStore[c]

\* a step that takes refresh token records away is the DeleteRefreshTokenData
\* call of an exchange, and takes away the record of its token and no other
OnlyExchangedTokenDeleted ==
    (\E t \in DOMAIN refreshStore : t \notin DOMAIN refreshStore')
    => \E p \in Procs :
          /\ proc[p].pc = "delRefresh"
          /\ proc[p].ar.Code \in DOMAIN refreshStore
          /\ DOMAIN refreshStore' = DOMAIN refreshStore \ {proc[p].ar.Code}
          /\ \A t \in DOMAIN refreshStore' : refreshStore'[t] = refreshStore[t]

\* an exchange attempt presenting a code whose record was deleted is rejected
DeletedCodeRejected ==
    (/\ HandledStep
     /\ lastRequest'.grant_type = AUTHORIZATION_CODE
     /\ lastRequest'.code \in hist.deleted)
    => RejectedNothingMinted

\* an exchange attempt presenting a refresh token whose record was deleted is
\* rejected
DeletedTokenRejected ==
    (/\ HandledStep
     /\ lastRequest'.grant_type = REFRESH_TOKEN
     /\ lastRequest'.refresh_token \in hist.deleted)
    => RejectedNothingMinted

\* the token response of the step carries a refresh token that is not this
\* one and was never delivered before, and its record is in storage
NewRefreshTokenPersisted(token) ==
    /\ "refresh_token" \in DOMAIN response'.Data
    /\ response'.Data["refresh_token"] # token
    /\ response'.Data["refresh_token"] \notin hist.delivered \cup hist.deleted
    /\ response'.Data["refresh_token"] \in DOMAIN refreshStore'
    /\ refreshStore'[response'.Data["refresh_token"]].RefreshToken
          = response'.Data["refresh_token"]

---------------------------------------------------------------------------
\* C1: when an authorization-code exchange completes successfully for code C,
\* DeleteAuthorizeData has been called for C and, unless a DeleteAuthorizeData
\* call for C failed (its error is dropped), the record for C is gone; a delete
\* removes exactly the record for C and no other code record; and once the
\* record has been deleted every later exchange attempt presenting C is
\* rejected and mints no token.
C1_CodeDeletedUnlessDeleteFailed ==
    [][/\ \A code \in Codes :
             CodeExchangeCompletes(code)
             => /\ code \in hist'.deleted \cup hist'.delFailed
                /\ code \notin hist'.delFailed => code \notin DOMAIN authorizeStore'
       /\ OnlyExchangedCodeDeleted
       /\ DeletedCodeRejected]_vars

\* the exchange of k2 has completed and exactly its record is gone
C1_Witness ==
    /\ response.err = ""
    /\ response.ar.GrantType = AUTHORIZATION_CODE
    /\ response.ar.Code = "k2"
    /\ "k2" \notin hist.delFailed
    /\ DOMAIN authorizeStore = Codes \ {"k2"}

\* C1 as stated: whenever the exchange completes successfully for C the record
\* for C has been deleted, no other record is removed, later attempts are
\* rejected
C1_CodeDeletedOnSuccess ==
    [][/\ \A code \in Codes :
             CodeExchangeCompletes(code) => code \notin DOMAIN authorizeStore'
       /\ OnlyExchangedCodeDeleted
       /\ DeletedCodeRejected]_vars

---------------------------------------------------------------------------
---------------------------------------------------------------------------
\* C3: for any interleaving of concurrently processed access requests, a code
\* is exchanged with success more than once only if a request loaded its record
\* while another exchange of it was in flight (GetAuthorizeData and
\* DeleteAuthorizeData are separate Storage calls) or a DeleteAuthorizeData
\* call for it failed; otherwise at most one exchange presenting the code ends
\* with a successful token response.
C3_CodeExchangedOnceUnlessRaced ==
    \A code \in Codes :
        code \in hist.twice => code \in hist.raced \cup hist.delFailed

\* k1 was exchanged once, its record deleted, and the next exchange presenting
\* it was rejected
C3_Witness ==
    /\ "k1" \in hist.once
    /\ "k1" \in hist.deleted
    /\ "k1" \notin hist.twice
    /\ numRequests = 2
    /\ lastRequest.grant_type = AUTHORIZATION_CODE
    /\ lastRequest.auth = "c1"
    /\ lastRequest.code = "k1"
    /\ RejectedWith(E_INVALID_GRANT)

\* C3 as stated: at most one exchange presenting a given code ends with a
\* successful token response
C3_AtMostOneSuccessPerCode == \A code \in Codes : code \notin hist.twice

---------------------------------------------------------------------------
\* C4: in every reachable state, once a refresh grant presenting token T has
\* succeeded, the record for T is no longer in storage unless a
\* DeleteRefreshTokenData call for T failed; and T yields a second successor
\* only if a request loaded it while another exchange of it was in flight or
\* a delete call for it failed.
C4_OneLiveRefreshTokenUnlessRaced ==
    \A token \in hist.once \ Codes :
        /\ token \notin hist.delFailed => token \notin DOMAIN refreshStore
        /\ token \in hist.twice => token \in hist.raced \cup hist.delFailed

\* r1 was rotated out and its replay was rejected
C4_Witness ==
    /\ "r1" \in hist.once
    /\ "r1" \notin hist.twice
    /\ "r1" \notin DOMAIN refreshStore
    /\ numRequests = 2
    /\ lastRequest.grant_type = REFRESH_TOKEN
    /\ lastRequest.refresh_token = "r1"
    /\ RejectedWith(E_INVALID_GRANT)

\* C4 as stated: once a refresh grant presenting T has succeeded the record
\* for T is no longer in storage and T never yields a second successor
C4_OneLiveRefreshToken ==
    \A token \in hist.once \ Codes :
        token \notin DOMAIN refreshStore /\ token \notin hist.twice

---------------------------------------------------------------------------
\* C5: on a refresh-token grant that reaches the scope check (a POST by the
\* registered client the stored token belongs to), read both scopes as sets of
\* non-empty comma-delimited tokens: a requested scope whose set is a subset of
\* the previous token's set is accepted, the effective scope being the previous
\* scope when the requested one is empty and the requested one otherwise; a
\* requested scope with a token outside the previous set is rejected with
\* access_denied.
C5_RefreshScopeNeverWidens ==
    [][(/\ HandledStep
        /\ AuthenticatedRequest(lastRequest', REFRESH_TOKEN)
        /\ lastRequest'.refresh_token \in DOMAIN refreshStore
        /\ refreshStore[lastRequest'.refresh_token].ClientID = lastRequest'.auth)
       => LET requested == lastRequest'.scope
              previous == refreshStore[lastRequest'.refresh_token].Scope
          IN IF ScopeSet(requested) \subseteq ScopeSet(previous)
             THEN \E p \in Procs :
                     /\ proc[p].pc # "gate"
                     /\ proc'[p].pc = "gate"
                     /\ proc'[p].ar.GrantType = REFRESH_TOKEN
                     /\ proc'[p].ar.Scope = IF requested = <<>> THEN previous
                                            ELSE requested
                     /\ response' = response
             ELSE RejectedStep(E_ACCESS_DENIED)]_vars

\* a narrowed scope "b" was accepted against the previous scope "a,b"
C5_Witness ==
    /\ numRequests = 1
    /\ lastRequest.grant_type = REFRESH_TOKEN
    /\ lastRequest.scope = <<"b">>
    /\ "r1" \in DOMAIN refreshStore
    /\ refreshStore["r1"].Scope = ScopeAB
    /\ proc["p1"].pc = "gate"
    /\ proc["p1"].ar.Scope = <<"b">>

---------------------------------------------------------------------------
\* C6: GenerateAccessRequest rejects a request with invalid_request for its
\* method exactly when the method is neither POST nor (GET while
\* AllowGetAccessRequest is set).  Stated over the requests whose other fields
\* never make a handler answer invalid_request.
C6_MethodRejectedIffNotPostNorAllowedGet ==
    (numRequests = 1 /\ lastRequest \in DispatchRequests)
    => (RejectedWith(E_INVALID_REQUEST)
        <=> ~(\/ lastRequest.Method = "POST"
              \/ lastRequest.Method = "GET" /\ Config.AllowGetAccessRequest))

---------------------------------------------------------------------------
\* C7: for a POST, GenerateAccessRequest fails with unsupported_grant_type when
\* grant_type is not in Config.AllowedAccessTypes or is not one of
\* authorization_code, refresh_token, password, client_credentials (IMPLICIT
\* has no handler, allow-listed or not); for an allow-listed one of the four it
\* returns what the matching handler returns, unchanged.
C7_DispatchByAllowedGrantType ==
    [][(HandledStep /\ lastRequest'.Method = "POST")
       => LET r == lastRequest'
              h == CASE r.grant_type = AUTHORIZATION_CODE ->
                          handleAuthorizationCodeRequest(r, Config, authorizeStore, now)
                     [] r.grant_type = REFRESH_TOKEN ->
                          handleRefreshTokenRequest(r, Config, refreshStore)
                     [] r.grant_type = PASSWORD -> handlePasswordRequest(r, Config)
                     [] OTHER -> handleClientCredentialsRequest(r, Config)
          IN IF \/ r.grant_type \notin Config.AllowedAccessTypes
                \/ r.grant_type \notin AllGrantTypes
             THEN RejectedStep(E_UNSUPPORTED_GRANT_TYPE)
             ELSE IF h.err # "" THEN RejectedStep(h.err)
             ELSE ValidatedStep(h.ar)]_vars

\* an allow-listed password grant came back from its handler validated
C7_Witness ==
    /\ numRequests = 1
    /\ lastRequest.Method = "POST"
    /\ lastRequest.grant_type = PASSWORD
    /\ PASSWORD \in Config.AllowedAccessTypes
    /\ proc["p1"] = [pc |-> "gate", ar |-> handlePasswordRequest(lastRequest, Config).ar,
                     ret |-> Nil, rt |-> Nil]

\* C7 as stated: unsupported_grant_type exactly for the grant types outside the
\* allow-list, every allow-listed grant type reaching a handler (no handler
\* answers unsupported_grant_type)
C7_EveryAllowedGrantTypeHasHandler ==
    (numRequests = 1 /\ lastRequest.Method = "POST")
    => (RejectedWith(E_UNSUPPORTED_GRANT_TYPE)
        <=> lastRequest.grant_type \notin Config.AllowedAccessTypes)

---------------------------------------------------------------------------
\* C8: an authorization-code exchange (a POST by a registered client) that
\* presents a code whose AuthorizeData is expired at the time of evaluation is
\* rejected with invalid_grant, whether or not the code is bound to that client
\* and whatever the verifier; no token is minted or persisted for it.
C8_ExpiredCodeRejected ==
    (/\ numRequests = 1
     /\ AuthenticatedRequest(lastRequest, AUTHORIZATION_CODE)
     /\ lastRequest.code \in DOMAIN authorizeStore
     /\ authorizeStore[lastRequest.code].CreatedAt
          + authorizeStore[lastRequest.code].ExpiresIn < now)
    => /\ RejectedWith(E_INVALID_GRANT)
       /\ \A p \in Procs : proc[p].pc = "idle"
       /\ NoTokenMinted

\* the expired code k1, presented by the client it is bound to, was rejected
C8_Witness ==
    /\ numRequests = 1
    /\ now = 1
    /\ lastRequest.grant_type = AUTHORIZATION_CODE
    /\ lastRequest.auth = "c1"
    /\ lastRequest.code = "k1"
    /\ "k1" \in DOMAIN authorizeStore
    /\ RejectedWith(E_INVALID_GRANT)

---------------------------------------------------------------------------
\* C9: an authorization-code exchange (a POST by a registered client) whose
\* client identifier is not the one the loaded AuthorizeData is bound to is
\* rejected with invalid_grant and mints nothing; whatever is issued on an
\* authorization-code exchange is issued to the client the code was bound to.
C9_CodeBoundToClient ==
    (numRequests = 1 /\ AuthenticatedRequest(lastRequest, AUTHORIZATION_CODE))
    => /\ (/\ lastRequest.code \in DOMAIN authorizeStore
           /\ authorizeStore[lastRequest.code].ClientID # lastRequest.auth)
          => /\ RejectedWith(E_INVALID_GRANT)
             /\ \A p \in Procs : proc[p].pc = "idle"
             /\ NoTokenMinted
       /\ \A p \in Procs :
             proc[p].ar # Nil
             => proc[p].ar.ClientData.ClientID = proc[p].ar.AuthorizeData.ClientID
       /\ \A d \in accessStore :
             /\ lastRequest.code \in DOMAIN InitAuthorizeStore
             /\ d.ClientData.ClientID = InitAuthorizeStore[lastRequest.code].ClientID
       /\ \A t \in DOMAIN refreshStore \ {"r1"} :
             /\ lastRequest.code \in DOMAIN InitAuthorizeStore
             /\ refreshStore[t].ClientID = InitAuthorizeStore[lastRequest.code].ClientID

\* the unexpired code k3 of client c1, presented by client c2, was rejected
C9_Witness ==
    /\ numRequests = 1
    /\ now = 0
    /\ lastRequest.grant_type = AUTHORIZATION_CODE
    /\ lastRequest.auth = "c2"
    /\ lastRequest.code = "k3"
    /\ lastRequest.code_verifier = RFCVerifier
    /\ RejectedWith(E_INVALID_GRANT)

---------------------------------------------------------------------------
(* PKCE with the S256 method: k3 holds the challenge of RFC 7636 appendix B *)

\* v is the RFC verifier with exactly one character replaced, or with one
\* character taken out
SingleCharacterMutation(v) ==
    \/ /\ Len(v) = Len(RFCVerifier)
       /\ Cardinality({i \in 1..Len(v) : v[i] # RFCVerifier[i]}) = 1
    \/ \E i \in 1..Len(RFCVerifier) :
          v = SubSeq(RFCVerifier, 1, i - 1) \o SubSeq(RFCVerifier, i + 1, Len(RFCVerifier))

\* the unreserved characters of RFC 7636: A-Z a-z 0-9 - . _ ~
Unreserved == (65..90) \cup (97..122) \cup (48..57) \cup {45, 46, 95, 126}

\* v has the form RFC 7636 asks of a verifier: 43 to 128 unreserved characters
WellFormedVerifier(v) ==
    /\ Len(v) \in 43..128
    /\ \A i \in 1..Len(v) : v[i] \in Unreserved

\* the unexpired S256 code k3 is presented by its client c1
PresentsS256Code ==
    /\ numRequests = 1
    /\ AuthenticatedRequest(lastRequest, AUTHORIZATION_CODE)
    /\ lastRequest.auth = "c1"
    /\ lastRequest.code = "k3"

\* C10: with the S256 challenge of RFC 7636 stored, the matching verifier is
\* accepted; a verifier obtained from it by mutating a single character is
\* rejected, with invalid_grant when it still has the form the PKCE pattern
\* asks for (a character replaced by another unreserved one) and with
\* invalid_request when it does not (a character outside the unreserved set,
\* or a character taken out of the 43).
C10_S256VerifierChecked ==
    PresentsS256Code
    => /\ lastRequest.code_verifier = RFCVerifier
          => ~(response.ar = Nil /\ response.err # "none")
       /\ SingleCharacterMutation(lastRequest.code_verifier)
          => IF WellFormedVerifier(lastRequest.code_verifier)
             THEN RejectedWith(E_INVALID_GRANT) /\ NoTokenMinted
             ELSE RejectedWith(E_INVALID_REQUEST) /\ NoTokenMinted

\* the verifier with its first character replaced by "A" was rejected
C10_Witness ==
    /\ PresentsS256Code
    /\ lastRequest.code_verifier = [RFCVerifier EXCEPT ![1] = 65]
    /\ RejectedWith(E_INVALID_GRANT)

\* C10 as stated: every single-character mutation of the verifier is rejected
\* with invalid_grant
C10_EveryMutationInvalidGrant ==
    (PresentsS256Code /\ SingleCharacterMutation(lastRequest.code_verifier))
    => RejectedWith(E_INVALID_GRANT)

---------------------------------------------------------------------------
\* C11: a client-credentials grant never carries a refresh token: for every
\* configuration no RefreshTokenData is built or persisted for it, and its
\* token response has no refresh_token.
C11_ClientCredentialsNoRefreshToken ==
    (numRequests = 1 /\ lastRequest.grant_type = CLIENT_CREDENTIALS)
    => /\ refreshStore = InitRefreshStore(ScopeAB)
       /\ \A p \in Procs : proc[p].rt = Nil
       /\ \A p \in Procs : proc[p].ar # Nil => ~proc[p].ar.GenerateRefresh
       /\ response.err = "" => "refresh_token" \notin DOMAIN response.Data

\* a client-credentials grant has ended in a token response with an access
\* token and no refresh token
C11_Witness ==
    /\ numRequests = 1
    /\ lastRequest.grant_type = CLIENT_CREDENTIALS
    /\ response.err = ""
    /\ response.ar.GrantType = CLIENT_CREDENTIALS
    /\ "access_token" \in DOMAIN response.Data
    /\ "refresh_token" \notin DOMAIN response.Data
    /\ accessStore # {}

---------------------------------------------------------------------------
\* C12: if SaveRefreshTokenData fails during FinishAccessRequest (the call
\* returns without the record in storage), the request ends there in
\* server_error, the result carries no access_token, and no AccessData of the
\* request is persisted.
C12_SaveRefreshFailureFatal ==
    [][\A p \in Procs :
          (/\ proc[p].pc = "saveRefresh"
           /\ proc'[p].pc # "saveRefresh"
           /\ proc[p].rt.RefreshToken \notin DOMAIN refreshStore')
          => /\ proc'[p] = Idle
             /\ response'.err = E_SERVER_ERROR
             /\ "access_token" \notin DOMAIN response'.Data
             /\ accessStore' = accessStore
             /\ \A d \in accessStore' : d.AccessToken # proc[p].ret.AccessToken]_vars

\* both tokens were generated, SaveRefreshTokenData failed: server_error, and
\* neither record is in storage
C12_Witness ==
    /\ numRequests = 1
    /\ nextToken = 2
    /\ proc["p1"] = Idle
    /\ response.err = E_SERVER_ERROR
    /\ response.Data = <<>>
    /\ DOMAIN refreshStore = {"r1"}
    /\ accessStore = {}

---------------------------------------------------------------------------
\* C13: for a request that passed validation, the callback returning (false,
\* no error) yields access_denied and the callback returning an error yields
\* server_error; in both cases HandleAccessRequest returns there, without
\* FinishAccessRequest: no token is generated and storage is not touched.  Only
\* (true, no error) leads on to FinishAccessRequest.
C13_DenialAndGateErrorDistinct ==
    [][\A p \in Procs :
          (proc[p].pc = "gate" /\ proc'[p] # proc[p])
          => /\ hist'.gate \in {"allow", "deny", "error"}
             /\ hist'.gate = "allow" => proc'[p].pc = "finish" /\ response' = response
             /\ hist'.gate = "deny"
                => response' = ErrorResponse(E_ACCESS_DENIED, proc[p].ar)
             /\ hist'.gate = "error"
                => response' = ErrorResponse(E_SERVER_ERROR, proc[p].ar)
             /\ hist'.gate # "allow"
                => /\ proc'[p] = Idle
                   /\ UNCHANGED <<nextToken, accessStore, refreshStore, authorizeStore>>]_vars

\* the callback returned an error for a validated password grant: server_error
C13_Witness ==
    /\ numRequests = 1
    /\ lastRequest.grant_type = PASSWORD
    /\ hist.gate = "error"
    /\ response.err = E_SERVER_ERROR
    /\ response.ar # Nil
    /\ proc["p1"] = Idle
    /\ nextToken = 0

---------------------------------------------------------------------------
\* C14: a failure of DeleteAuthorizeData or DeleteRefreshTokenData never fails
\* the request: once the token records are saved, whatever the delete calls
\* return, the request ends in the success response with the minted tokens,
\* and the saved records stay in storage.
C14_DeleteFailureNotFatal ==
    [][\A p \in Procs :
          (proc[p].pc \in {"delAuth", "delRefresh"} /\ proc'[p] # proc[p])
          => \/ /\ proc[p].pc = "delAuth"
                /\ proc'[p] = [proc[p] EXCEPT !.pc = "delRefresh"]
                /\ response' = response
             \/ /\ proc'[p] = Idle
                /\ response'.err = ""
                /\ response'.Data["access_token"] = proc[p].ret.AccessToken
                /\ proc[p].ret \in accessStore'
                /\ proc[p].rt # Nil
                   => /\ response'.Data["refresh_token"] = proc[p].rt.RefreshToken
                      /\ proc[p].rt.RefreshToken \in DOMAIN refreshStore'
                      /\ refreshStore'[proc[p].rt.RefreshToken] = proc[p].rt]_vars

\* the delete of the code k1 failed and the exchange still ended in the token
\* response
C14_Witness ==
    /\ numRequests = 1
    /\ lastRequest.code = "k1"
    /\ hist.delFailed = {"k1"}
    /\ "k1" \in DOMAIN authorizeStore
    /\ response.err = ""
    /\ response.Data["access_token"] = Token(1)
    /\ response.Data["refresh_token"] = Token(2)

---------------------------------------------------------------------------
\* C15: AccessData.IsExpiredAt(now) is true exactly when CreatedAt + ExpiresIn
\* <= now, the instant now = CreatedAt + ExpiresIn included.  Stated of every
\* AccessData the server has saved, at every time the clock reaches.
C15_ExpiredExactlyWhenExpiryNotAfterNow ==
    \A d \in accessStore :
        IsExpiredAt(d, now) <=> (d.CreatedAt + d.ExpiresIn <= now)

---------------------------------------------------------------------------
\* a step that saves or deletes a record, or calls the token generator
StorageOrGeneratorStep ==
    \/ accessStore' # accessStore
    \/ refreshStore' # refreshStore
    \/ authorizeStore' # authorizeStore
    \/ nextToken' # nextToken
    \/ hist'.deleted # hist.deleted
    \/ hist'.delFailed # hist.delFailed

\* C16: a request rejected during validation, denied by the callback, or for
\* which the callback errors, ends there and leaves storage unchanged: neither
\* validation nor the callback step saves or deletes a record or calls the
\* token generator, and only a request that the callback allowed (one inside
\* FinishAccessRequest) ever does.
C16_RejectionLeavesStorageUnchanged ==
    [][/\ HandledStep => ~StorageOrGeneratorStep
       /\ (HandledStep /\ response' # response)
          => /\ \E code \in ErrorCodes : RejectedStep(code)
             /\ \A p \in Procs : proc'[p] # proc[p] => proc'[p] = Idle
       /\ \A p \in Procs :
             (proc[p].pc = "gate" /\ proc'[p] # proc[p])
             => /\ ~StorageOrGeneratorStep
                /\ hist'.gate # "allow"
                   => proc'[p] = Idle /\ response'.err \in {E_ACCESS_DENIED, E_SERVER_ERROR}
       /\ StorageOrGeneratorStep
          => \E p \in Procs :
                /\ proc[p].pc \in {"finish", "saveRefresh", "saveAccess",
                                   "delAuth", "delRefresh"}
                /\ proc'[p] # proc[p]]_vars

\* the exchange of the code k3 was denied by the callback: nothing was minted,
\* saved or deleted
C16_Witness ==
    /\ numRequests = 1
    /\ lastRequest.code = "k3"
    /\ hist.gate = "deny"
    /\ response.err = E_ACCESS_DENIED
    /\ proc["p1"] = Idle
    /\ authorizeStore = InitAuthorizeStore
    /\ refreshStore = InitRefreshStore(ScopeAB)
    /\ accessStore = {}
    /\ nextToken = 0

---------------------------------------------------------------------------
\* a step in which DeleteAuthorizeData or DeleteRefreshTokenData is called, or
\* a code or refresh token record leaves storage
DeleteStep ==
    \/ hist'.deleted # hist.deleted
    \/ hist'.delFailed # hist.delFailed
    \/ \E c \in DOMAIN authorizeStore : c \notin DOMAIN authorizeStore'
    \/ \E t \in DOMAIN refreshStore : t \notin DOMAIN refreshStore'

---------------------------------------------------------------------------
\* C18: when FinishAccessRequest returns an error it has persisted no new
\* token record: neither the AccessData nor the RefreshTokenData minted for
\* the request is in storage after the step that ends it in server_error.
C18_ErrorPersistsNoTokenRecord ==
    [][\A p \in Procs :
          (/\ proc[p].pc \in {"finish", "saveRefresh", "saveAccess"}
           /\ proc'[p] = Idle
           /\ response'.err = E_SERVER_ERROR)
          => /\ proc[p].ret \notin accessStore'
             /\ proc[p].rt # Nil
                => proc[p].rt.RefreshToken \notin DOMAIN refreshStore']_vars

---------------------------------------------------------------------------
\* C19: scope never widens along a rotation chain: every AccessData and
\* RefreshTokenData record minted by a refresh-token grant of a chain, in
\* storage or still held by the request, has a scope token set that is a
\* subset of the scope token set of the chain's original refresh token record.
C19_ScopeWithinChainOrigin ==
    \A e \in hist.origin :
        /\ \A d \in accessStore :
              d.AccessToken = e.token => ScopeSet(d.Scope) \subseteq ScopeSet(e.scope)
        /\ e.token \in DOMAIN refreshStore
           => ScopeSet(refreshStore[e.token].Scope) \subseteq ScopeSet(e.scope)
        /\ \A p \in Procs :
              /\ (proc[p].ret # Nil /\ proc[p].ret.AccessToken = e.token)
                 => ScopeSet(proc[p].ret.Scope) \subseteq ScopeSet(e.scope)
              /\ (proc[p].rt # Nil /\ proc[p].rt.RefreshToken = e.token)
                 => ScopeSet(proc[p].rt.Scope) \subseteq ScopeSet(e.scope)

\* a chain of two rotations: r1 (scope "a,b") was exchanged with scope "a",
\* the refresh token of that response was exchanged in turn, and both records
\* of the second exchange are in storage with scope "a"
C19_Witness ==
    /\ "r1" \in hist.deleted
    /\ \E t \in hist.delivered \cap hist.deleted, u \in hist.delivered \ hist.deleted :
          /\ [token |-> t, scope |-> ScopeAB] \in hist.origin
          /\ [token |-> u, scope |-> ScopeAB] \in hist.origin
          /\ u \in DOMAIN refreshStore
          /\ refreshStore[u].Scope = ScopeA
          /\ \E d \in accessStore :
                /\ [token |-> d.AccessToken, scope |-> ScopeAB] \in hist.origin
                /\ d.Scope = ScopeA
                /\ d.CreatedAt = refreshStore[u].CreatedAt

---------------------------------------------------------------------------
\* the AccessData d and the refresh token t were generated for the same
\* request: GenerateRefreshToken is called right after GenerateAccessToken
MintedTogether(d, t) ==
    \E n \in 1..nextToken : d.AccessToken = Token(n) /\ t = Token(n + 1)

\* the step persists a RefreshTokenData that holds the redirect URI of the
\* request that minted it
RedirectURIPersisted ==
    \A p \in Procs :
        (proc[p].pc = "saveRefresh" /\ proc'[p].pc = "saveAccess")
        => /\ proc[p].rt.RefreshToken \in DOMAIN refreshStore'
           /\ refreshStore'[proc[p].rt.RefreshToken].RedirectURI = proc[p].ar.RedirectURI

\* the step mints the AccessData of a refresh-token grant with the redirect
\* URI of the AccessData minted by the grant that issued the refresh token
RedirectURIInherited ==
    \A p \in Procs :
        (/\ proc[p].pc = "finish"
         /\ proc'[p].ret # Nil
         /\ proc[p].ar.PreviousRefreshToken # Nil)
        => \A d \in accessStore :
              MintedTogether(d, proc[p].ar.PreviousRefreshToken.RefreshToken)
              => proc'[p].ret.RedirectURI = d.RedirectURI

\* C20: the redirect URI is carried across rotation: the RefreshTokenData
\* persisted by FinishAccessRequest holds the redirect URI of the request that
\* minted it, and the AccessData minted by a later refresh-token grant has the
\* redirect URI of the AccessData minted by the grant that issued the token.
C20_RedirectURICarriedAcrossRotation ==
    [][RedirectURIPersisted /\ RedirectURIInherited]_vars

=============================================================================
